---- MODULE Spec2Model ----
(***************************************************************************)
(* Model of StreamingJsonParser (src/json_parser.py).                      *)
(*                                                                         *)
(* Text is a sequence of one-character strings.  Python indices are        *)
(* 0-based, so the character s[i] of the source is s[i + 1] here.          *)
(* Python values that the code passes around are tagged records, so that   *)
(* None, an int, a str and a dict stay distinguishable.  Every operator    *)
(* that models a method returns a record whose field "raised" tells        *)
(* whether the call ended in an exception (a TypeError) instead of         *)
(* returning.                                                              *)
(***************************************************************************)
EXTENDS Integers, Sequences, FiniteSets, TLC

\* ------------------------------------------------------------------------
\* Bounds of the model
\* ------------------------------------------------------------------------

\* every text over Alphabet of at most this length is a possible input
MaxLen == 3

\* ------------------------------------------------------------------------
\* Python values
\* ------------------------------------------------------------------------

PyNone == [t |-> "none"]

PyInt(n) == [t |-> "int", v |-> n]

PyStr(s) == [t |-> "str", v |-> s]

PyDict(d) == [t |-> "dict", v |-> d]

\* the dict literal {}
EmptyDict == [k \in {} |-> PyNone]

\* obj[key] = value
DictSet(d, key, value) ==
    [k \in (DOMAIN d) \cup {key} |-> IF k = key THEN value ELSE d[k]]

\* Python truthiness of a value, as tested by "elif value:"
Truthy(val) ==
    CASE val.t = "none" -> FALSE
      [] val.t = "int"  -> val.v # 0
      [] val.t = "str"  -> Len(val.v) > 0
      [] val.t = "dict" -> DOMAIN val.v # {}

Quote == "\""

\* str.isspace() on the characters of the model's alphabet
IsSpace(ch) == ch \in {" ", "\t", "\n", "\r"}

\* ------------------------------------------------------------------------
\* Scanner primitives
\* ------------------------------------------------------------------------

RECURSIVE skip_ws_loop(_, _)
\* the while loop of _skip_ws: the value of the local i when the loop ends
skip_ws_loop(s, i) ==
    IF i < Len(s) /\ IsSpace(s[i + 1]) THEN skip_ws_loop(s, i + 1) ELSE i

\* _skip_ws has no return statement: the loop runs and the call returns None
_skip_ws(s, i) ==
    LET j == skip_ws_loop(s, i) IN PyNone

RECURSIVE read_string_loop_escapes(_, _, _)
\* a string reader in which a backslash escapes the character after it
read_string_loop_escapes(s, i, out) ==
    IF i < Len(s)
    THEN IF s[i + 1] = "\\" /\ i + 1 < Len(s)
         THEN read_string_loop_escapes(s, i + 2,
                                       out \o <<s[i + 1], s[i + 2]>>)
         ELSE IF s[i + 1] = Quote
         THEN [val |-> out, nxt |-> i + 1, completed |-> TRUE]
         ELSE read_string_loop_escapes(s, i + 1, Append(out, s[i + 1]))
    ELSE [val |-> out, nxt |-> i, completed |-> FALSE]

RECURSIVE read_string_loop(_, _, _)
\* the while loop of _read_string
read_string_loop(s, i, out) ==
    IF i < Len(s)
    THEN IF s[i + 1] = Quote
         THEN [val |-> out, nxt |-> i + 1, completed |-> TRUE]
         ELSE read_string_loop(s, i + 1, Append(out, s[i + 1]))
    ELSE [val |-> out, nxt |-> i, completed |-> FALSE]

\* _read_string(s, i), s[i] being the opening quote
_read_string(s, i) == read_string_loop(s, i + 1, <<>>)

\* ------------------------------------------------------------------------
\* Invalid-construct skipper
\* ------------------------------------------------------------------------

\* a call that ended in a TypeError
SkipRaised == [raised |-> TRUE, i |-> 0]

SkipRet(i) == [raised |-> FALSE, i |-> i]

RECURSIVE skip_array_loop(_, _, _)
\* the "while i < len(s) and depth > 0" loop of _skip_invalid_value
skip_array_loop(s, i, depth) ==
    IF i < Len(s) /\ depth > 0
    THEN IF s[i + 1] = "["
         THEN skip_array_loop(s, i + 1, depth + 1)
         ELSE IF s[i + 1] = "]"
         THEN skip_array_loop(s, i + 1, depth - 1)
         ELSE IF s[i + 1] = Quote
         THEN skip_array_loop(s, _read_string(s, i).nxt, depth)
         ELSE skip_array_loop(s, i + 1, depth)
    ELSE i

RECURSIVE skip_scalar_loop(_, _)
\* the loop that skips a boolean, null or number
skip_scalar_loop(s, i) ==
    IF i < Len(s) /\ s[i + 1] \notin {",", "}", " ", "\t", "\n", "\r"}
    THEN skip_scalar_loop(s, i + 1)
    ELSE i

_skip_invalid_value(s, i0) ==
    LET w == _skip_ws(s, i0)
    IN  IF w.t # "int"
        THEN SkipRaised                    \* "i >= len(s)" with i = None
        ELSE IF w.v >= Len(s)
        THEN SkipRet(w.v)
        ELSE IF s[w.v + 1] = "["
        THEN SkipRet(skip_array_loop(s, w.v + 1, 1))
        ELSE SkipRet(skip_scalar_loop(s, w.v))

\* ------------------------------------------------------------------------
\* Value reader and object parser
\* ------------------------------------------------------------------------

ValueRaised == [raised |-> TRUE, value |-> PyNone, i |-> 0, invalid |-> FALSE]

ValueRet(value, i, invalid) ==
    [raised |-> FALSE, value |-> value, i |-> i, invalid |-> invalid]

ObjectRaised ==
    [raised |-> TRUE, obj |-> EmptyDict, i |-> 0,
     partial |-> FALSE, invalid |-> FALSE]

ObjectRet(obj, i, partial, invalid) ==
    [raised |-> FALSE, obj |-> obj, i |-> i,
     partial |-> partial, invalid |-> invalid]

RECURSIVE _parse_object(_, _)
RECURSIVE _read_value(_, _)
RECURSIVE parse_object_loop(_, _, _)
RECURSIVE parse_object_value(_, _, _, _)
RECURSIVE parse_object_after_value(_, _, _)

_read_value(s, i0) ==
    LET w == _skip_ws(s, i0)
    IN  IF w.t # "int"
        THEN ValueRaised                   \* "i >= len(s)" with i = None
        ELSE IF w.v >= Len(s)
        THEN ValueRet(PyNone, w.v, FALSE)
        ELSE IF s[w.v + 1] = Quote
        THEN LET r == _read_string(s, w.v)
             IN  ValueRet(PyStr(r.val), r.nxt, FALSE)
        ELSE IF s[w.v + 1] = "{"
        THEN LET r == _parse_object(s, w.v)
             IN  IF r.raised THEN ValueRaised
                 ELSE ValueRet(PyDict(r.obj), r.i, r.invalid)
        ELSE ValueRet(PyNone, w.v, TRUE)

\* one iteration of "while True", from its first statement; i0 and obj are
\* the locals i and obj on entry
parse_object_loop(s, i0, obj) ==
    LET w == _skip_ws(s, i0)
    IN  IF w.t # "int"
        THEN ObjectRaised                  \* "i >= len(s)" with i = None
        ELSE IF w.v >= Len(s)
        THEN ObjectRet(obj, w.v, TRUE, FALSE)
        ELSE IF s[w.v + 1] = "}"
        THEN ObjectRet(obj, w.v + 1, FALSE, FALSE)
        ELSE IF s[w.v + 1] = ","
        THEN parse_object_loop(s, w.v + 1, obj)
        ELSE IF s[w.v + 1] # Quote
        THEN ObjectRet(obj, w.v, TRUE, FALSE)
        ELSE LET k == _read_string(s, w.v)
             IN  IF ~k.completed
                 THEN ObjectRet(obj, k.nxt, TRUE, FALSE)
                 ELSE parse_object_value(s, k.nxt, obj, k.val)

\* the iteration from "# parse the value" on, the key being complete
parse_object_value(s, i0, obj, key) ==
    LET w == _skip_ws(s, i0)
    IN  IF w.t # "int"
        THEN ObjectRaised                  \* "i >= len(s)" with i = None
        ELSE IF w.v >= Len(s)
        THEN ObjectRet(obj, w.v, TRUE, FALSE)
        ELSE IF s[w.v + 1] # ":"
        THEN ObjectRet(obj, w.v, TRUE, FALSE)
        ELSE LET r == _read_value(s, w.v + 1)
             IN  IF r.raised THEN ObjectRaised
                 ELSE IF r.invalid
                 THEN LET k == _skip_invalid_value(s, r.i)
                      IN  IF k.raised THEN ObjectRaised
                          ELSE parse_object_after_value(s, k.i, obj)
                 ELSE IF Truthy(r.value)
                 THEN parse_object_after_value(s, r.i,
                                               DictSet(obj, key, r.value))
                 ELSE parse_object_after_value(s, r.i, obj)

\* the iteration from the _skip_ws call that follows the value on
parse_object_after_value(s, i0, obj) ==
    LET w == _skip_ws(s, i0)
    IN  IF w.t # "int"
        THEN ObjectRaised                  \* "i >= len(s)" with i = None
        ELSE IF w.v >= Len(s)
        THEN ObjectRet(obj, w.v, TRUE, FALSE)
        ELSE IF s[w.v + 1] = ","
        THEN LET w2 == _skip_ws(s, w.v + 1)
             IN  IF w2.t # "int"
                 THEN ObjectRaised         \* "i < len(s)" with i = None
                 ELSE IF w2.v < Len(s) /\ s[w2.v + 1] = "}"
                 THEN ObjectRet(obj, w2.v + 1, FALSE, FALSE)
                 ELSE parse_object_loop(s, w2.v, obj)
        ELSE IF s[w.v + 1] = "}"
        THEN ObjectRet(obj, w.v + 1, FALSE, FALSE)
        ELSE ObjectRet(obj, w.v, TRUE, FALSE)

\* _parse_object(s, i), s[i] being the opening brace
_parse_object(s, i) == parse_object_loop(s, i + 1, EmptyDict)

\* _parse_from(start) over the buffer buf
_parse_from(buf, start) ==
    LET r == _parse_object(buf, start)
    IN  [raised |-> r.raised, obj |-> r.obj, invalid |-> r.invalid]

\* ------------------------------------------------------------------------
\* Top-level orchestrator
\* ------------------------------------------------------------------------

RECURSIVE find_from(_, _, _)
\* the least 0-based index j >= i with buf[j] = ch, or -1
find_from(buf, ch, i) ==
    IF i >= Len(buf) THEN -1
    ELSE IF buf[i + 1] = ch THEN i
    ELSE find_from(buf, ch, i + 1)

\* a find that reports an absent character as index 0
find_absent_is_zero(buf, ch) ==
    IF find_from(buf, ch, 0) = -1 THEN 0 ELSE find_from(buf, ch, 0)

\* str.find(ch)
find(buf, ch) == find_from(buf, ch, 0)

\* a consume that puts the chunk in front of the buffer
consume_prepend(buf, chunk) == chunk \o buf

\* self._buffer += chunk
consume_buffer(buf, chunk) == buf \o chunk

\* a get whose early exit is a bare return, which hands None to the caller
get_bare_return(buf, res) ==
    LET start == find(buf, "{")
    IN  IF start = -1
        THEN [raised |-> FALSE, ret |-> PyNone, result |-> res]
        ELSE LET r == _parse_from(buf, start)
             IN  IF r.raised
                 THEN [raised |-> TRUE, ret |-> PyNone, result |-> res]
                 ELSE IF r.invalid
                 THEN [raised |-> FALSE, ret |-> PyDict(EmptyDict),
                       result |-> EmptyDict]
                 ELSE [raised |-> FALSE, ret |-> PyDict(r.obj),
                       result |-> r.obj]

\* get() on a parser whose fields are buf and res: whether it raised, the
\* value it returned and the value it leaves in self._result
get(buf, res) ==
    LET start == find(buf, "{")
    IN  IF start = -1
        THEN [raised |-> FALSE, ret |-> PyDict(EmptyDict), result |-> res]
        ELSE LET r == _parse_from(buf, start)
             IN  IF r.raised
                 THEN [raised |-> TRUE, ret |-> PyNone, result |-> res]
                 ELSE IF r.invalid
                 THEN [raised |-> FALSE, ret |-> PyDict(EmptyDict),
                       result |-> EmptyDict]
                 ELSE [raised |-> FALSE, ret |-> PyDict(r.obj),
                       result |-> r.obj]

\* ------------------------------------------------------------------------
\* Input texts
\* ------------------------------------------------------------------------

Alphabet == {"{", "}", Quote, ":", ",", " ", "a", "1"}

RECURSIVE TextsUpTo(_)
\* every text over Alphabet of length at most n
TextsUpTo(n) ==
    IF n = 0 THEN {<<>>}
    ELSE LET shorter == TextsUpTo(n - 1)
         IN  shorter \cup {Append(t, c) : t \in shorter, c \in Alphabet}

\* the text "x" with its quotes
Str(x) == <<Quote>> \o x \o <<Quote>>

\* "k":"v"
Pair(k, v) == Str(<<k>>) \o <<":">> \o Str(<<v>>)

\* {"a":"b"}
DocOne == <<"{">> \o Pair("a", "b") \o <<"}">>

\* {"a":"b","c":"d"}
DocTwo == <<"{">> \o Pair("a", "b") \o <<",">> \o Pair("c", "d") \o <<"}">>

\* {"a":{"b":"c"}}
DocNested ==
    <<"{">> \o Str(<<"a">>) \o <<":", "{">> \o Pair("b", "c") \o <<"}", "}">>

\* {"a":{"b":{"c":"d"}}}
DocDeep ==
    <<"{">> \o Str(<<"a">>) \o <<":", "{">> \o Str(<<"b">>) \o <<":", "{">>
        \o Pair("c", "d") \o <<"}", "}", "}">>

\* {"a":1,"b":"c"}
DocNumber ==
    <<"{">> \o Str(<<"a">>) \o <<":", "1", ",">> \o Pair("b", "c") \o <<"}">>

\* {"a":[1,"]"],"b":{"c":"d"}}
DocArray ==
    <<"{">> \o Str(<<"a">>) \o <<":", "[", "1", ",">> \o Str(<<"]">>)
        \o <<"]", ",">> \o Str(<<"b">>) \o <<":", "{">> \o Pair("c", "d")
        \o <<"}", "}">>

\* {"a":"b","c":true}
DocBool ==
    <<"{">> \o Pair("a", "b") \o <<",">> \o Str(<<"c">>)
        \o <<":", "t", "r", "u", "e", "}">>

\* { "a" : "bc" , }
DocSpaced ==
    <<"{", " ">> \o Str(<<"a">>) \o <<" ", ":", " ">> \o Str(<<"b", "c">>)
        \o <<" ", ",", " ", "}">>

\* {"a":"b"}}
DocExtraBrace == DocOne \o <<"}">>

\* {"a":"b"}{"c":"d"}
DocSecondObject == DocOne \o <<"{">> \o Pair("c", "d") \o <<"}">>

\* x{"a":"b"}x
DocEmbedded == <<"x">> \o DocOne \o <<"x">>

\* {"a":"b",}
DocTrailingComma == <<"{">> \o Pair("a", "b") \o <<",", "}">>

\* {"a":"","b":"c"}
DocEmptyString ==
    <<"{">> \o Str(<<"a">>) \o <<":", Quote, Quote, ",">> \o Pair("b", "c")
        \o <<"}">>

\* {"a":{},"b":"c"}
DocEmptyObject ==
    <<"{">> \o Str(<<"a">>) \o <<":", "{", "}", ",">> \o Pair("b", "c")
        \o <<"}">>

\* {"a":"b","a":"c"}
DocDuplicateKey ==
    <<"{">> \o Pair("a", "b") \o <<",">> \o Pair("a", "c") \o <<"}">>

\* the text " \n\t\rabc" of the whitespace test
DocWhitespace == <<" ", "\n", "\t", "\r", "a", "b", "c">>

\* "a\"b   a string that holds a backslash before its closing quote
DocBackslash == <<Quote, "a", "\\", Quote, "b">>

\* true}
DocSkipBool == <<"t", "r", "u", "e", "}">>

\* [1,["]"],4],x   an array that nests an array holding the string "]"
DocSkipArray ==
    <<"[", "1", ",", "[">> \o Str(<<"]">>) \o <<"]", ",", "4", "]", ",", "x">>

Samples ==
    {DocOne, DocTwo, DocNested, DocDeep, DocNumber, DocArray, DocBool,
     DocSpaced, DocExtraBrace, DocSecondObject, DocEmbedded,
     DocTrailingComma, DocEmptyString, DocEmptyObject, DocDuplicateKey,
     DocWhitespace, DocBackslash, DocSkipBool, DocSkipArray}

Texts == TextsUpTo(MaxLen) \cup Samples

\* ------------------------------------------------------------------------
\* The parser as a state machine
\* ------------------------------------------------------------------------

VARIABLES
    text,      \* the text the producer emits, piece by piece
    fed,       \* the number of characters of text consumed so far
    buffer,    \* self._buffer
    result,    \* self._result
    last,      \* the last call: its name, whether it raised, what it returned
    prev       \* the call before it, and the fields it left behind

vars == <<text, fed, buffer, result, last, prev>>

Snapshot == [op |-> last.op, raised |-> last.raised, ret |-> last.ret,
             buffer |-> buffer, result |-> result]

\* __init__
Init ==
    /\ text \in Texts
    /\ fed = 0
    /\ buffer = <<>>
    /\ result = EmptyDict
    /\ last = [op |-> "init", raised |-> FALSE, ret |-> PyNone]
    /\ prev = [op |-> "none", raised |-> FALSE, ret |-> PyNone,
               buffer |-> <<>>, result |-> EmptyDict]

\* consume(chunk), the chunk being the next n characters of the text
Consume ==
    \E n \in 0..(Len(text) - fed) :
        LET chunk == SubSeq(text, fed + 1, fed + n)
        IN  /\ buffer' = consume_buffer(buffer, chunk)
            /\ fed' = fed + n
            /\ last' = [op |-> "consume", raised |-> FALSE, ret |-> PyNone]
            /\ prev' = Snapshot
            /\ UNCHANGED <<text, result>>

\* get()
Get ==
    LET g == get(buffer, result)
    IN  /\ result' = g.result
        /\ last' = [op |-> "get", raised |-> g.raised, ret |-> g.ret]
        /\ prev' = Snapshot
        /\ UNCHANGED <<text, fed, buffer>>

Next == Consume \/ Get

Spec == Init /\ [][Next]_vars

\* ------------------------------------------------------------------------
\* Vocabulary of the properties
\* ------------------------------------------------------------------------

IsPrefix(p, s) == Len(p) <= Len(s) /\ SubSeq(s, 1, Len(p)) = p

HasBrace(s) == \E j \in 1..Len(s) : s[j] = "{"

RECURSIVE TakeUntilQuote(_)
\* the characters of s before its first quote, all of s when it has none
TakeUntilQuote(s) ==
    IF s = <<>> \/ Head(s) = Quote THEN <<>>
    ELSE <<Head(s)>> \o TakeUntilQuote(Tail(s))

\* the mapping {"a": "b"}
ObjAB == <<"a">> :> PyStr(<<"b">>)

\* the mapping {"b": "c"}
ObjBC == <<"b">> :> PyStr(<<"c">>)

\* the mapping {"c": "d"}
ObjCD == <<"c">> :> PyStr(<<"d">>)

\* the last call was a get that returned the mapping d
GetReturned(d) == last.op = "get" /\ ~last.raised /\ last.ret = PyDict(d)

\* the texts of Samples that the supported grammar derives
WellFormedTexts ==
    {DocOne, DocTwo, DocNested, DocDeep, DocNumber, DocArray, DocBool,
     DocSpaced}

\* ------------------------------------------------------------------------
\* Properties
\* ------------------------------------------------------------------------

\* C1: after any sequence of consume calls, a get call returns a mapping and
\* does not end in an exception, whatever the buffer holds.
C1_GetReturnsMapping ==
    last.op = "get" => (~last.raised /\ last.ret.t = "dict")

\* C2: once a well-formed text has been consumed completely, in whatever
\* chunks, get returns what a fresh parser that consumed the text in one
\* piece returns.
C2_ChunksEqualWhole ==
    (last.op = "get" /\ fed = Len(text) /\ text \in WellFormedTexts)
        => LET whole == get(consume_buffer(<<>>, text), EmptyDict)
           IN  /\ ~last.raised
               /\ ~whole.raised
               /\ last.ret = whole.ret

\* C3: two get calls in a row return equal mappings, and the second leaves
\* the buffer and the cached result as the first left them.
C3_GetTwiceEqual ==
    (last.op = "get" /\ prev.op = "get")
        => /\ ~prev.raised
           /\ ~last.raised
           /\ last.ret = prev.ret
           /\ buffer = prev.buffer
           /\ result = prev.result

\* closed objects with an unsupported value, and the siblings to return
C4_Cases ==
    {<<DocNumber, ObjBC>>,
     <<DocArray, <<"b">> :> PyDict(ObjCD)>>,
     <<DocBool, ObjAB>>}

\* C4: for a closed object holding a key with an unsupported value, get
\* omits that key and returns every sibling whose value is a string or an
\* object, and the object parser reports neither partial nor invalid.
C4_UnsupportedValueSkipped ==
    \A c \in C4_Cases :
        (last.op = "get" /\ buffer = c[1])
            => /\ GetReturned(c[2])
               /\ LET r == _parse_object(c[1], 0)
                  IN  ~r.raised /\ ~r.partial /\ ~r.invalid /\ r.obj = c[2]

\* {"a":"   the buffer up to the opening quote of the value of "a"
OpenValueOfA == SubSeq(DocOne, 1, 6)

\* C5: when the buffer holds {"a":" and at least one character of the
\* value, get returns "a" mapped to the value characters received so far:
\* all that arrived while the closing quote is missing, the whole string
\* once later chunks have supplied it.
C5_StringValueSoFar ==
    (/\ last.op = "get"
     /\ IsPrefix(OpenValueOfA, buffer)
     /\ Len(buffer) > 6
     /\ buffer[7] # Quote)
        => /\ ~last.raised
           /\ last.ret.t = "dict"
           /\ <<"a">> \in DOMAIN last.ret.v
           /\ last.ret.v[<<"a">>]
                  = PyStr(TakeUntilQuote(SubSeq(buffer, 7, Len(buffer))))

\* buffers that end inside the value of "c", after the complete pair "a":"b"
C6_CutOffBuffers ==
    {SubSeq(DocBool, 1, n) : n \in 14..16} \cup {SubSeq(DocTwo, 1, 15)}

\* C6: when the input ends inside a value, get returns only the pairs that
\* were complete before it; the pair in flight is not in the mapping.
C6_CutOffValueDropped ==
    (last.op = "get" /\ buffer \in C6_CutOffBuffers) => GetReturned(ObjAB)

\* buffers that end inside a key, after a key, or right after its colon,
\* with the pairs stored before that key
C7_Cases ==
    {<<SubSeq(DocTwo, 1, n), ObjAB>> : n \in 10..13}
        \cup {<<SubSeq(DocOne, 1, n), EmptyDict>> : n \in 2..5}

\* C7: when the buffer ends inside a key, or after a key but before its
\* colon or its value, get returns exactly the pairs stored before that key
\* and the object parser reports partial and not invalid.
C7_DanglingKeyDropped ==
    \A c \in C7_Cases :
        (last.op = "get" /\ buffer = c[1])
            => /\ GetReturned(c[2])
               /\ LET r == _parse_object(c[1], 0)
                  IN  ~r.raised /\ r.partial /\ ~r.invalid /\ r.obj = c[2]

\* buffers that end inside a nested object, at depth two and three, with
\* the mapping the missing braces would close
C8_Cases ==
    {<<SubSeq(DocNested, 1, 13), <<"a">> :> PyDict(ObjBC)>>,
     <<SubSeq(DocDeep, 1, 18),
       <<"a">> :> PyDict(<<"b">> :> PyDict(ObjCD))>>}

\* C8: when the buffer ends inside a nested object, get returns the
\* enclosing object with the nested key mapped to the pairs parsed so far.
C8_NestedPartialClosed ==
    \A c \in C8_Cases :
        (last.op = "get" /\ buffer = c[1]) => GetReturned(c[2])

\* C9: once the buffer holds the closed top-level object {"a":"b"}, whatever
\* is consumed after it, get returns what it returns for that object alone.
C9_ClosedObjectIsFinal ==
    \A lead \in {<<>>, <<"x">>} :
        (last.op = "get" /\ IsPrefix(lead \o DocOne, buffer))
            => LET closed == get(lead \o DocOne, EmptyDict)
               IN  /\ ~closed.raised
                   /\ ~last.raised
                   /\ last.ret = closed.ret

\* C10: get returns an empty mapping whenever the buffer holds no "{",
\* whatever calls came before.
C10_NoBraceGivesEmpty ==
    (last.op = "get" /\ ~HasBrace(buffer)) => GetReturned(EmptyDict)

\* a second get in a row on a non-empty buffer without "{"
C10_Witness ==
    /\ last.op = "get"
    /\ prev.op = "get"
    /\ Len(buffer) >= 2
    /\ ~HasBrace(buffer)
    /\ GetReturned(EmptyDict)

RECURSIVE IsTree(_)
\* val is a string, or a mapping whose values are all trees
IsTree(val) ==
    \/ val.t = "str"
    \/ /\ val.t = "dict"
       /\ \A k \in DOMAIN val.v : IsTree(val.v[k])

C12_BufferIsChunksInOrder ==
    [][/\ buffer' = SubSeq(text', 1, fed')
       /\ (last'.op = "consume" => result' = result)
       /\ (last'.op = "get" => buffer' = buffer)
       /\ Len(buffer') >= Len(buffer)
       /\ IsPrefix(buffer, buffer')]_vars

\* two non-empty chunks consumed one after the other
C12_Witness ==
    /\ last.op = "consume"
    /\ prev.op = "consume"
    /\ Len(prev.buffer) >= 1
    /\ Len(buffer) > Len(prev.buffer)
    /\ buffer[1] # buffer[Len(buffer)]

\* C13: a comma followed, after optional whitespace, by the closing brace
\* closes the object: get returns the pairs before the comma and the object
\* parser reports partial = false.
C13_TrailingCommaCloses ==
    \A c \in {<<DocTrailingComma, ObjAB>>,
              <<DocSpaced, <<"a">> :> PyStr(<<"b", "c">>)>>} :
        (last.op = "get" /\ buffer = c[1])
            => /\ GetReturned(c[2])
               /\ LET r == _parse_object(c[1], 0)
                  IN  ~r.raised /\ ~r.partial /\ r.obj = c[2]

RECURSIVE NoEmptyValue(_)
\* no key of the mapping d, at any depth, maps to "" or to {}
NoEmptyValue(d) ==
    \A k \in DOMAIN d :
        /\ d[k] # PyStr(<<>>)
        /\ d[k] # PyDict(EmptyDict)
        /\ d[k].t = "dict" => NoEmptyValue(d[k].v)

\* C17: no key of the mapping get returns maps to an empty string or an
\* empty mapping; a key whose value reads as "" or {} is not stored and the
\* pairs after it are parsed and returned.
C17_EmptyValueNotStored ==
    /\ (last.op = "get" /\ ~last.raised) => NoEmptyValue(last.ret.v)
    /\ \A t \in {DocEmptyString, DocEmptyObject} :
           (last.op = "get" /\ buffer = t) => GetReturned(ObjBC)

\* C18: when a key occurs twice in one object, the returned object holds it
\* once, mapped to the value of its last occurrence.
C18_LastDuplicateWins ==
    (last.op = "get" /\ buffer = DocDuplicateKey)
        => GetReturned(<<"a">> :> PyStr(<<"c">>))

\* ------------------------------------------------------------------------
\* The helper methods called on their own
\* ------------------------------------------------------------------------

\* a helper is called as helper(text, fed): here text is the argument s and
\* fed the argument i, any index of the text
InitHelpers ==
    /\ text \in Texts
    /\ fed \in 0..Len(text)
    /\ buffer = <<>>
    /\ result = EmptyDict
    /\ last = [op |-> "init", raised |-> FALSE, ret |-> PyNone]
    /\ prev = [op |-> "none", raised |-> FALSE, ret |-> PyNone,
               buffer |-> <<>>, result |-> EmptyDict]

\* _skip_ws(text, fed)
CallSkipWs ==
    /\ last' = [op |-> "_skip_ws", raised |-> FALSE,
                ret |-> _skip_ws(text, fed)]
    /\ UNCHANGED <<text, fed, buffer, result, prev>>

\* _read_string(text, fed), text[fed] being a quote
CallReadString ==
    /\ fed < Len(text)
    /\ text[fed + 1] = Quote
    /\ last' = [op |-> "_read_string", raised |-> FALSE,
                ret |-> _read_string(text, fed)]
    /\ UNCHANGED <<text, fed, buffer, result, prev>>

\* _skip_invalid_value(text, fed)
CallSkipInvalidValue ==
    LET r == _skip_invalid_value(text, fed)
    IN  /\ last' = [op |-> "_skip_invalid_value", raised |-> r.raised,
                    ret |-> r]
        /\ UNCHANGED <<text, fed, buffer, result, prev>>

\* _read_value(text, fed)
CallReadValue ==
    LET r == _read_value(text, fed)
    IN  /\ last' = [op |-> "_read_value", raised |-> r.raised, ret |-> r]
        /\ UNCHANGED <<text, fed, buffer, result, prev>>

\* _parse_object(text, fed), text[fed] being an opening brace
CallParseObject ==
    /\ fed < Len(text)
    /\ text[fed + 1] = "{"
    /\ LET r == _parse_object(text, fed)
       IN  last' = [op |-> "_parse_object", raised |-> r.raised, ret |-> r]
    /\ UNCHANGED <<text, fed, buffer, result, prev>>

NextHelpers ==
    \/ CallSkipWs
    \/ CallReadString
    \/ CallSkipInvalidValue
    \/ CallReadValue
    \/ CallParseObject

SpecHelpers == InitHelpers /\ [][NextHelpers]_vars

\* ------------------------------------------------------------------------
\* Properties of the helper methods
\* ------------------------------------------------------------------------

\* space, tab, newline and carriage return
WhitespaceChars == {" ", "\t", "\n", "\r"}

\* the least index j >= i of s whose character is in the set chars (wanted
\* = TRUE) or outside it (wanted = FALSE), Len(s) if there is none
FirstIndex(s, i, chars, wanted) ==
    CHOOSE j \in i..Len(s) :
        /\ j = Len(s) \/ ((s[j + 1] \in chars) = wanted)
        /\ \A k \in i..(j - 1) : (s[k + 1] \in chars) # wanted

\* C14: _skip_ws(text, index) returns the index of the first character at or
\* after index that is not a space, tab, newline or carriage return, and
\* len(text) when only whitespace remains.
C14_SkipWsReturnsIndex ==
    last.op = "_skip_ws"
        => last.ret = PyInt(FirstIndex(text, fed, WhitespaceChars, FALSE))

\* C15: the object parser returns to its caller with invalid = false, for
\* every text and every start offset.
C15_ObjectParserNeverInvalid ==
    last.op = "_parse_object" => (~last.raised /\ ~last.ret.invalid)

\* C16: _skip_invalid_value returns the index right after the unsupported
\* value: for an array the index after the bracket that closes it, brackets
\* inside strings not counted; for any other value the index of the first
\* comma, closing brace or whitespace character, len(text) when none follows.
C16_SkipReturnsIndexAfterValue ==
    last.op = "_skip_invalid_value"
        => /\ ~last.raised
           /\ (text = DocSkipArray /\ fed = 0) => last.ret.i = 11
           /\ (text = DocSkipBool /\ fed = 0) => last.ret.i = 4
           /\ (fed < Len(text) /\ text[fed + 1] \notin WhitespaceChars \cup {"["})
                  => last.ret.i
                         = FirstIndex(text, fed,
                                      WhitespaceChars \cup {",", "}"}, TRUE)

\* C19: every helper returns a next index that is at least the index it was
\* given and at most len(text), and the object parser, which starts at an
\* opening brace, returns a strictly larger one.
C19_HelpersAdvanceWithinText ==
    /\ last.op = "_skip_ws"
           => (last.ret.t = "int" /\ last.ret.v \in fed..Len(text))
    /\ last.op = "_read_string" => last.ret.nxt \in (fed + 1)..Len(text)
    /\ last.op \in {"_skip_invalid_value", "_read_value"}
           => (~last.raised /\ last.ret.i \in fed..Len(text))
    /\ last.op = "_parse_object"
           => (~last.raised /\ last.ret.i \in (fed + 1)..Len(text))

\* the 1-based positions of the quotes after the opening quote at fed + 1
ClosingQuotes == {j \in (fed + 2)..Len(text) : text[j] = Quote}

\* C20: _read_string returns the characters strictly between the opening
\* quote and the next quote as they are, the index just past that quote and
\* completed = true; without a closing quote it returns every character
\* after the opening quote, len(text) and completed = false.
C20_ReadStringVerbatim ==
    last.op = "_read_string"
        => IF ClosingQuotes # {}
           THEN LET j == CHOOSE q \in ClosingQuotes :
                             \A o \in ClosingQuotes : q <= o
                IN  last.ret = [val |-> SubSeq(text, fed + 2, j - 1),
                                nxt |-> j, completed |-> TRUE]
           ELSE last.ret = [val |-> SubSeq(text, fed + 2, Len(text)),
                            nxt |-> Len(text), completed |-> FALSE]

\* the string "a\" read up to the quote that follows the backslash
C20_Witness ==
    /\ last.op = "_read_string"
    /\ text = DocBackslash
    /\ fed = 0
    /\ last.ret.completed
    /\ last.ret.val = <<"a", "\\">>

====
